---- MODULE Spec2Model ----
(***************************************************************************)
(* Contact endpoint layer of src/routes/contacts.py: six role-gated,       *)
(* rate-limited handlers over a per-user contact store.                    *)
(*                                                                         *)
(* The handlers (get_contacts ... remove_contact), the role allow-lists    *)
(* and the per-route limiter quota are translated from contacts.py.  The   *)
(* data-access layer (src.repository.contacts), the role gate              *)
(* (src.services.roles.RoleAccess), the identity provider and the rate     *)
(* limiter are collaborators whose code is not part of contacts.py; they   *)
(* are modelled from the behaviour the specification gives them (the       *)
(* repo_* operators, RoleAccess, Authenticated, Admits).                   *)
(***************************************************************************)
EXTENDS Naturals, Sequences, FiniteSets

VARIABLES contacts, nextId, today, pending, resp, hits
vars == <<contacts, nextId, today, pending, resp, hits>>

-----------------------------------------------------------------------------
(* Bounds of the model *)

\* contact identifiers the store hands out: 1..MaxId
MaxId == 2
\* days the clock may advance
MaxDay == 1
\* create requests suspended between their duplicate check and their insert
MaxInFlight == 2

-----------------------------------------------------------------------------
(* Values *)

None == "None"

Users == {"alice", "bob", "carol"}
\* a caller whose credential the identity provider does not resolve
Anonymous == "anonymous"
Callers == Users \cup {Anonymous}
\* the callers of Spec: the admin, an ordinary user, an unauthenticated one
Clients == {"alice", "carol", Anonymous}

\* src.database.models.Role, attached to each User by the identity provider
RoleOf == [u \in Users |-> CASE u = "alice" -> "admin"
                             [] u = "bob"   -> "moderator"
                             [] OTHER       -> "user"]

Emails == {"a@x", "b@x"}
FirstNames == {"Ann"}
LastNames == {"Lee"}

Ids == 1..MaxId
\* path parameter values: every assigned id, and one never assigned
PathIds == 1..(MaxId + 1)
DaysArgs == 0..MaxDay

\* the query parameters of a list request: absent (None), empty, or a value
Filters == {<<None, None, None>>, <<"", "", "">>, <<None, None, "a@x">>,
            <<"Ann", None, None>>, <<"Ann", "Lee", "b@x">>, <<"Zed", None, None>>}
\* Python truthiness of an optional string
Truthy(s) == s # None /\ s # ""

\* ContactModel: the full payload of create
ContactModel == [firstname : FirstNames, lastname : LastNames, email : Emails]
\* ContactUpdateModel: every field optional
ContactUpdateModel ==
    [firstname : {None}, lastname : {None}, email : Emails \cup {None}]
    \cup [firstname : FirstNames, lastname : LastNames, email : {None}]

NoContact == [id |-> 0, user_id |-> None, firstname |-> None,
              lastname |-> None, email |-> None, created |-> 0]

-----------------------------------------------------------------------------
(* Data-access layer, src.repository.contacts *)

Owned(user) == {c \in contacts : c.user_id = user}

repo_get_contacts(user) == Owned(user)

repo_get_contact_by_filter(user, firstname, lastname, email) ==
    {c \in Owned(user) :
        /\ (Truthy(firstname) => c.firstname = firstname)
        /\ (Truthy(lastname) => c.lastname = lastname)
        /\ (Truthy(email) => c.email = email)}

\* the rows of the caller created within the last `days` days, or the
\* none-sentinel when the lookup failed
repo_contacts_per_days(days, user, failed) ==
    [isNone |-> failed,
     rows |-> IF failed THEN {}
              ELSE {c \in Owned(user) : c.created + days >= today}]

OneOrNone(S) == IF S = {} THEN NoContact
                ELSE CHOOSE c \in S : \A d \in S : c.id <= d.id

repo_get_contact_by_id(contact_id, user) ==
    OneOrNone({c \in Owned(user) : c.id = contact_id})

repo_get_contact_by_email(email, user) ==
    OneOrNone({c \in Owned(user) : c.email = email})

\* the record create persists: a fresh identifier, owner = caller
repo_create_contact(body, user) ==
    [id |-> nextId, user_id |-> user, firstname |-> body.firstname,
     lastname |-> body.lastname, email |-> body.email, created |-> today]

\* only the fields present in the payload overwrite
Merge(c, body) ==
    [c EXCEPT !.firstname = IF body.firstname = None THEN @ ELSE body.firstname,
              !.lastname = IF body.lastname = None THEN @ ELSE body.lastname,
              !.email = IF body.email = None THEN @ ELSE body.email]

repo_update_contact(body, contact_id, user) ==
    LET c == repo_get_contact_by_id(contact_id, user)
    IN IF c = NoContact THEN NoContact ELSE Merge(c, body)

\* delete-by-id: the caller is not among its arguments
repo_remove_contact(contact_id) ==
    OneOrNone({c \in contacts : c.id = contact_id})

-----------------------------------------------------------------------------
(* Guards: identity, role allow-list, rate limiter *)

Authenticated(caller) == caller \in Users

allowed_operation_get == {"admin", "moderator", "user"}
allowed_operation_create == {"admin", "moderator", "user"}
allowed_operation_update == {"admin", "moderator", "user"}
\* mutant: the moderator is let through to delete
allowed_operation_remove_moderator == {"admin", "moderator"}

allowed_operation_remove == {"admin"}

AllowList(route) ==
    CASE route \in {"list", "days", "get"} -> allowed_operation_get
      [] route = "create" -> allowed_operation_create
      [] route = "update" -> allowed_operation_update
      [] OTHER -> allowed_operation_remove

RoleAccess(caller, route) == RoleOf[caller] \in AllowList(route)

\* RateLimiter(times=2, seconds=5) of every route
RouteLimit(route) == [times |-> 2, seconds |-> 5]

\* the ages, in seconds, of the requests of an identity and route that the
\* limiter admitted and still counts
AgesOf(h, caller, route) ==
    IF <<caller, route>> \in DOMAIN h THEN h[<<caller, route>>] ELSE <<>>

\* mutant: the counter is keyed by the identity alone, not by the route
Admits_by_identity(caller, route) ==
    Cardinality(UNION {{<<k, i>> : i \in 1..Len(hits[k])} :
                          k \in {x \in DOMAIN hits : x[1] = caller}})
       < RouteLimit(route).times

\* the limiter admits a request while fewer than `times` requests of the
\* same identity and route were admitted in the last `seconds` seconds
Admits(caller, route) ==
    Len(AgesOf(hits, caller, route)) < RouteLimit(route).times

\* the limiter's counters once the request is through the guards
Counted(caller, route) ==
    IF Authenticated(caller) /\ RoleAccess(caller, route) /\ Admits(caller, route)
    THEN [k \in DOMAIN hits \cup {<<caller, route>>} |->
             IF k = <<caller, route>> THEN Append(AgesOf(hits, caller, route), 0)
             ELSE hits[k]]
    ELSE hits

\* the limiter's counters one second later
Aged ==
    LET older == [k \in DOMAIN hits |->
                    SelectSeq([i \in 1..Len(hits[k]) |-> hits[k][i] + 1],
                              LAMBDA a : a < RouteLimit(k[2]).seconds)]
    IN [k \in {x \in DOMAIN hits : older[x] # <<>>} |-> older[k]]

-----------------------------------------------------------------------------
(* Handler results *)

Outcome(status, body, store, next) ==
    [status |-> status, body |-> body, contacts |-> store, nextId |-> next]

\* an HTTPException, or a guard's failure: nothing is written
Fail(status) == Outcome(status, {}, contacts, nextId)

\* mutant: the limiter is consulted after the handler body has run
Dispatch_limiter_last(route, caller, limited, out) ==
    IF ~Authenticated(caller) THEN Fail(401)
    ELSE IF ~RoleAccess(caller, route) THEN Fail(403)
    ELSE IF limited THEN [out EXCEPT !.status = 429, !.body = {}]
    ELSE out

\* the dependencies of a route run before its handler body
Dispatch(route, caller, limited, out) ==
    IF ~Authenticated(caller) THEN Fail(401)
    ELSE IF ~RoleAccess(caller, route) THEN Fail(403)
    ELSE IF limited THEN Fail(429)
    ELSE out

get_contacts_lookup(caller, firstname, lastname, email) ==
    IF Truthy(firstname) \/ Truthy(lastname) \/ Truthy(email)
    THEN repo_get_contact_by_filter(caller, firstname, lastname, email)
    ELSE repo_get_contacts(caller)

\* mutant: only the none-sentinel is answered 404, as in get_contacts_by_days
get_contacts_is_none(caller, firstname, lastname, email) ==
    Outcome(200, get_contacts_lookup(caller, firstname, lastname, email),
            contacts, nextId)

get_contacts(caller, firstname, lastname, email) ==
    LET found == get_contacts_lookup(caller, firstname, lastname, email)
    IN IF found = {} THEN Fail(404)
       ELSE Outcome(200, found, contacts, nextId)

\* mutant: an empty sequence is answered 404, as in get_contacts
get_contacts_by_days_not(caller, days, failed) ==
    LET found == repo_contacts_per_days(days, caller, failed)
    IN IF found.isNone \/ found.rows = {} THEN Fail(404)
       ELSE Outcome(200, found.rows, contacts, nextId)

get_contacts_by_days(caller, days, failed) ==
    LET found == repo_contacts_per_days(days, caller, failed)
    IN IF found.isNone THEN Fail(404)
       ELSE Outcome(200, found.rows, contacts, nextId)

\* mutant: current_user is not passed on, as in remove_contact
get_contact_by_id_lookup_any(caller, contact_id) ==
    OneOrNone({c \in contacts : c.id = contact_id})

get_contact_by_id_lookup(caller, contact_id) ==
    repo_get_contact_by_id(contact_id, caller)

get_contact_by_id(caller, contact_id) ==
    LET contact == get_contact_by_id_lookup(caller, contact_id)
    IN IF contact = NoContact THEN Fail(404)
       ELSE Outcome(200, {contact}, contacts, nextId)

\* mutant: current_user is not passed on to the duplicate lookup
create_contact_check_any_owner(caller, body) ==
    IF \E c \in contacts : c.email = body.email THEN Fail(409)
    ELSE Fail(0)

\* create, up to its second data-access call: 409, or 0 (no answer yet)
create_contact_check(caller, body) ==
    LET contact == repo_get_contact_by_email(body.email, caller)
    IN IF contact # NoContact THEN Fail(409)
       ELSE Fail(0)

\* create, from its second data-access call on
create_contact_insert(caller, body) ==
    LET contact == repo_create_contact(body, caller)
    IN Outcome(201, {contact}, contacts \cup {contact}, nextId + 1)

\* create run to completion
create_contact(caller, body) ==
    IF create_contact_check(caller, body).status = 409 THEN Fail(409)
    ELSE create_contact_insert(caller, body)

update_contact(caller, contact_id, body) ==
    LET contact == repo_update_contact(body, contact_id, caller)
    IN IF contact = NoContact THEN Fail(404)
       ELSE Outcome(200, {contact},
                    {c \in contacts : c.id # contact_id} \cup {contact}, nextId)

\* mutant: the none result is not turned into 404
remove_contact_always_204(caller, contact_id) ==
    LET contact == repo_remove_contact(contact_id)
    IN Outcome(204, {}, contacts \ {contact}, nextId)

remove_contact(caller, contact_id) ==
    LET contact == repo_remove_contact(contact_id)
    IN IF contact = NoContact THEN Fail(404)
       ELSE Outcome(204, {}, contacts \ {contact}, nextId)

-----------------------------------------------------------------------------------------------------------------------------------------------------
(* State *)

NoArgs == [id |-> 0, firstname |-> None, lastname |-> None, email |-> None,
           days |-> 0, failed |-> FALSE]

BodyArgs(body) == [NoArgs EXCEPT !.firstname = body.firstname,
                                 !.lastname = body.lastname,
                                 !.email = body.email]

Init ==
    /\ contacts = {}
    /\ nextId = 1
    /\ today = 0
    /\ pending = <<>>
    /\ resp = [route |-> None, caller |-> None, limited |-> FALSE,
               args |-> NoArgs, status |-> 0, body |-> {}]
    /\ hits = <<>>

\* the request and the response it is answered with; `limited` is the rate
\* limiter's verdict, FALSE when the limiter was not reached
Response(route, caller, limited, args, o) ==
    [route |-> route, caller |-> caller,
     limited |-> Authenticated(caller) /\ RoleAccess(caller, route) /\ limited,
     args |-> args, status |-> o.status, body |-> o.body]

\* a request answered in one step; `limited` is the rate limiter's verdict
Answer(route, caller, limited, args, out) ==
    LET o == Dispatch(route, caller, limited, out)
    IN /\ resp' = Response(route, caller, limited, args, o)
       /\ contacts' = o.contacts
       /\ nextId' = o.nextId
       /\ UNCHANGED <<today, pending>>

GetContacts(caller, limited, firstname, lastname, email) ==
    Answer("list", caller, limited,
           [NoArgs EXCEPT !.firstname = firstname, !.lastname = lastname,
                          !.email = email],
           get_contacts(caller, firstname, lastname, email))

GetContactsByDays(caller, limited, days, failed) ==
    Answer("days", caller, limited,
           [NoArgs EXCEPT !.days = days, !.failed = failed],
           get_contacts_by_days(caller, days, failed))

GetContactById(caller, limited, contact_id) ==
    Answer("get", caller, limited, [NoArgs EXCEPT !.id = contact_id],
           get_contact_by_id(caller, contact_id))

CreateContact(caller, limited, body) ==
    /\ Dispatch("create", caller, limited,
                create_contact(caller, body)).status = 201 => nextId <= MaxId
    /\ Answer("create", caller, limited, BodyArgs(body),
              create_contact(caller, body))

UpdateContact(caller, limited, contact_id, body) ==
    Answer("update", caller, limited,
           [BodyArgs(body) EXCEPT !.id = contact_id],
           update_contact(caller, contact_id, body))

RemoveContact(caller, limited, contact_id) ==
    Answer("delete", caller, limited, [NoArgs EXCEPT !.id = contact_id],
           remove_contact(caller, contact_id))

\* create, first step: the guards and the duplicate check; the request is
\* answered (a guard's failure, 409) or suspended before its insert
CreateContactCheck(caller, limited, body) ==
    LET o == Dispatch("create", caller, limited,
                      create_contact_check(caller, body))
    IN /\ IF o.status = 0
          THEN /\ Len(pending) < MaxInFlight
               /\ nextId + Len(pending) <= MaxId
               /\ pending' = Append(pending, [caller |-> caller, body |-> body])
               /\ UNCHANGED resp
          ELSE /\ resp' = Response("create", caller, limited, BodyArgs(body), o)
               /\ UNCHANGED pending
       /\ UNCHANGED <<contacts, nextId, today>>

\* create, second step: the insert of the i-th suspended request
CreateContactInsert(i) ==
    /\ i \in 1..Len(pending)
    /\ LET p == pending[i]
           o == create_contact_insert(p.caller, p.body)
       IN /\ resp' = Response("create", p.caller, FALSE, BodyArgs(p.body), o)
          /\ contacts' = o.contacts
          /\ nextId' = o.nextId
    /\ pending' = SubSeq(pending, 1, i - 1) \o SubSeq(pending, i + 1, Len(pending))
    /\ UNCHANGED today

\* a second passes
Tick ==
    /\ hits' = Aged
    /\ UNCHANGED <<contacts, nextId, today, pending, resp>>

NextDay ==
    /\ today < MaxDay
    /\ today' = today + 1
    /\ UNCHANGED <<contacts, nextId, pending, resp>>

-----------------------------------------------------------------------------------------------------------------------------------------------------
(* Spec: the six handlers, each run to completion, called by the admin, an *)
(* ordinary user and an unauthenticated caller; the rate limiter's verdict *)
(* is an input.                                                            *)

Next ==
    \E caller \in Clients, limited \in BOOLEAN :
       \/ \E f \in Filters :
             GetContacts(caller, limited, f[1], f[2], f[3]) /\ UNCHANGED hits
       \/ \E failed \in BOOLEAN :
             GetContactsByDays(caller, limited, 0, failed) /\ UNCHANGED hits
       \/ \E id \in PathIds :
             GetContactById(caller, limited, id) /\ UNCHANGED hits
       \/ \E body \in ContactModel :
             CreateContact(caller, limited, body) /\ UNCHANGED hits
       \/ \E id \in PathIds, body \in ContactUpdateModel :
             UpdateContact(caller, limited, id, body) /\ UNCHANGED hits
       \/ \E id \in PathIds :
             RemoveContact(caller, limited, id) /\ UNCHANGED hits

Spec == Init /\ [][Next]_vars

-----------------------------------------------------------------------------
(* SpecRoles: create, get-by-id and delete called under every role.        *)

NextRoles ==
    \E caller \in Callers, limited \in BOOLEAN :
       \/ \E body \in ContactModel :
             CreateContact(caller, limited, body) /\ UNCHANGED hits
       \/ \E id \in PathIds :
             GetContactById(caller, limited, id) /\ UNCHANGED hits
       \/ \E id \in PathIds :
             RemoveContact(caller, limited, id) /\ UNCHANGED hits

SpecRoles == Init /\ [][NextRoles]_vars

-----------------------------------------------------------------------------
(* SpecDays: create and the two list routes while the days pass.           *)

NextDays ==
    \/ \E caller \in {"alice", "carol"}, limited \in BOOLEAN :
          \/ \E body \in ContactModel :
                CreateContact(caller, limited, body) /\ UNCHANGED hits
          \/ GetContacts(caller, limited, None, None, None) /\ UNCHANGED hits
          \/ \E d \in DaysArgs, failed \in BOOLEAN :
                GetContactsByDays(caller, limited, d, failed) /\ UNCHANGED hits
    \/ NextDay /\ UNCHANGED hits

SpecDays == Init /\ [][NextDays]_vars

-----------------------------------------------------------------------------------------------------------------------------------------------------
(* SpecRace: create suspended between its duplicate check and its insert,  *)
(* interleaved with other creates, updates and deletes.                    *)

NextRace ==
    \/ \E caller \in Clients, limited \in BOOLEAN :
          \/ \E body \in ContactModel :
                CreateContactCheck(caller, limited, body) /\ UNCHANGED hits
          \/ \E id \in Ids, e \in Emails :
                UpdateContact(caller, limited, id,
                   [firstname |-> None, lastname |-> None, email |-> e])
                /\ UNCHANGED hits
          \/ \E id \in Ids :
                RemoveContact(caller, limited, id) /\ UNCHANGED hits
    \/ \E i \in 1..MaxInFlight : CreateContactInsert(i) /\ UNCHANGED hits

SpecRace == Init /\ [][NextRace]_vars

-----------------------------------------------------------------------------
(* SpecRate: the sliding-window limiter decides; two identities call two   *)
(* routes while the seconds pass.                                          *)

NextRate ==
    \/ \E caller \in {"bob", "carol"} :
          \/ /\ GetContacts(caller, ~Admits(caller, "list"), None, None, None)
             /\ hits' = Counted(caller, "list")
          \/ /\ UpdateContact(caller, ~Admits(caller, "update"), 1,
                   [firstname |-> None, lastname |-> None, email |-> "a@x"])
             /\ hits' = Counted(caller, "update")
    \/ Tick

SpecRate == Init /\ [][NextRate]_vars

-----
(* Properties *)

\* the statuses of the three guards: identity, role, rate limit
GuardStatuses == {401, 403, 429}

\* the request of resp passed the three guards
Served(r) == r.route # None /\ r.status \notin GuardStatuses

HasId(store, id) == \E c \in store : c.id = id

\* C1: a read (list, list by recency, get by id) never returns a contact of
\* another user, and get-by-id of an id another user owns answers 404
C1_ReadIsolation ==
    /\ resp.route \in {"list", "days", "get"} =>
          \A c \in resp.body : c.user_id = resp.caller
    /\ (/\ resp.route = "get"
        /\ Served(resp)
        /\ \E c \in contacts : c.id = resp.args.id /\ c.user_id # resp.caller)
       => resp.status = 404

C1_Witness ==
    /\ resp.route = "get"
    /\ resp.status = 404
    /\ \E c \in contacts : c.id = resp.args.id /\ c.user_id # resp.caller
    /\ Owned(resp.caller) # {}

\* C2: no request of a user changes or removes a contact of another user
C2_WriteIsolation ==
    [][\A v \in Users :
          v # resp'.caller => {c \in contacts' : c.user_id = v} = Owned(v)]_vars

\* C3: no two stored contacts of one owner have the same email
C3_EmailUniquePerOwner ==
    \A c, d \in contacts :
       (c.user_id = d.user_id /\ c.email = d.email) => c.id = d.id

\* C4: a create whose email the caller already holds answers 409 and writes
\* nothing, and never reaches its insert; an email only another user holds
\* causes no 409, and the insert answers 201 and adds exactly one record,
\* owned by the caller
C4_CreateConflict ==
    [][/\ Len(pending') > Len(pending) =>
            LET p == pending'[Len(pending')]
            IN ~\E c \in contacts :
                   c.user_id = p.caller /\ c.email = p.body.email
       /\ (resp' # resp /\ resp'.route = "create" /\ Served(resp')) =>
            resp'.status \in {201, 409}
       /\ (resp' # resp /\ resp'.route = "create" /\ resp'.status = 409) =>
            /\ \E c \in contacts :
                  c.user_id = resp'.caller /\ c.email = resp'.args.email
            /\ contacts' = contacts
       /\ Len(pending') < Len(pending) =>
            /\ resp'.status = 201
            /\ \E c \in contacts' :
                  /\ contacts' = contacts \cup {c}
                  /\ ~HasId(contacts, c.id)
                  /\ c.user_id = resp'.caller
                  /\ c.email = resp'.args.email
                  /\ resp'.body = {c}]_vars

C4_Witness ==
    /\ resp.route = "create"
    /\ resp.status = 409
    /\ \E c, d \in contacts :
          /\ c.user_id = resp.caller /\ c.email = resp.args.email
          /\ d.user_id # resp.caller /\ d.email = resp.args.email
          /\ d.id < c.id

\* C5: a delete by a caller of role user or moderator is answered 403 and
\* writes nothing, whatever the id; only an admin's delete is served
C5_DeleteAdminOnly ==
    [][resp'.route = "delete" =>
         /\ (resp'.caller \in Users /\ RoleOf[resp'.caller] \in {"user", "moderator"})
               => (resp'.status = 403 /\ contacts' = contacts)
         /\ Served(resp') => RoleOf[resp'.caller] = "admin"]_vars

C5_Witness ==
    /\ resp.route = "delete"
    /\ resp.status = 403
    /\ \E c \in contacts : c.id = resp.args.id /\ c.user_id = resp.caller
    /\ RoleOf[resp.caller] = "moderator"

\* an id the store handed out and holds no more: a deleted contact's id
Deleted(id) == id < nextId /\ ~HasId(contacts, id)

\* C6: a served delete of a stored id answers 204 and removes the record for
\* good; every later served delete, get or update of that id answers 404 and
\* leaves the store unchanged
C6_DeleteTwice ==
    [][/\ (resp'.route = "delete" /\ Served(resp') /\ HasId(contacts, resp'.args.id))
            => (resp'.status = 204 /\ ~HasId(contacts', resp'.args.id))
       /\ \A id \in PathIds : Deleted(id) => ~HasId(contacts', id)
       /\ (/\ resp'.route \in {"delete", "get", "update"}
           /\ Served(resp')
           /\ Deleted(resp'.args.id))
            => (resp'.status = 404 /\ contacts' = contacts)]_vars

C6_Witness ==
    /\ resp.route = "delete"
    /\ resp.status = 404
    /\ Deleted(resp.args.id)
    /\ contacts # {}

\* the contacts of `user` that match every filter that is given
Matching(user, firstname, lastname, email) ==
    {c \in contacts :
        /\ c.user_id = user
        /\ (firstname \notin {None, ""} => c.firstname = firstname)
        /\ (lastname \notin {None, ""} => c.lastname = lastname)
        /\ (email \notin {None, ""} => c.email = email)}

\* C7: a served list request answers 404 exactly when its lookup yields no
\* contact of the caller, and otherwise 200 with the non-empty result
C7_EmptyListIsNotFound ==
    (resp.route = "list" /\ Served(resp)) =>
       LET found == Matching(resp.caller, resp.args.firstname,
                             resp.args.lastname, resp.args.email)
       IN /\ resp.status \in {200, 404}
          /\ resp.status = 404 <=> found = {}
          /\ resp.status = 200 => (resp.body # {} /\ resp.body = found)

C7_Witness ==
    /\ resp.route = "list"
    /\ resp.status = 404
    /\ resp.args.email \in Emails
    /\ Owned(resp.caller) # {}

\* C8: a served list-by-recency request answers 404 exactly when its lookup
\* yields the none-sentinel; an empty sequence is answered 200 with an empty
\* list, also for a caller without contacts, whom list-contacts answers 404
C8_RecencyEmptyIsSuccess ==
    [][/\ (resp' # resp /\ resp'.route = "days" /\ Served(resp')) =>
            /\ resp'.status = 404 <=> resp'.args.failed
            /\ ~resp'.args.failed =>
                  /\ resp'.status = 200
                  /\ resp'.body = {c \in Owned(resp'.caller) :
                                      today - c.created <= resp'.args.days}
       /\ (resp' # resp /\ resp'.route = "list" /\ Served(resp')
              /\ Owned(resp'.caller) = {}) => resp'.status = 404]_vars

C8_Witness ==
    /\ resp.route = "days"
    /\ resp.status = 200
    /\ resp.body = {}
    /\ ~resp.args.failed
    /\ Owned(resp.caller) # {}

\* C9: a request that fails authentication, the role check or the rate limit
\* is answered by that guard, writes nothing and returns no contact
C9_GuardsBeforeDataAccess ==
    [][(\/ resp'.caller = Anonymous
        \/ (resp'.route = "delete" /\ resp'.caller \in Users
               /\ RoleOf[resp'.caller] # "admin")
        \/ resp'.limited)
         => /\ resp'.status \in GuardStatuses
            /\ resp'.body = {}
            /\ contacts' = contacts
            /\ nextId' = nextId]_vars

C9_Witness ==
    /\ resp.route = "delete"
    /\ resp.limited
    /\ resp.status = 429
    /\ HasId(contacts, resp.args.id)

\* a step that admits a request: a counter of the limiter grows
Grows ==
    \E k \in DOMAIN hits' : Len(hits'[k]) > Len(AgesOf(hits, k[1], k[2]))

\* C10: per identity and route the limiter never counts more than 2 admitted
\* requests of the last 5 seconds, counts each for 5 seconds, and rejects a
\* request exactly when 2 requests of the same identity and route are
\* counted: the 3rd within 5 seconds is rejected, requests of another
\* identity or to another route do not count
C10_RateLimit ==
    [][/\ \A k \in DOMAIN hits' :
             /\ Len(hits'[k]) <= 2
             /\ \A i \in 1..Len(hits'[k]) : hits'[k][i] < 5
       /\ (resp' # resp \/ Grows) =>
             (resp'.status = 429
                <=> Len(AgesOf(hits, resp'.caller, resp'.route)) >= 2)
       /\ (hits' # hits /\ ~Grows) =>
             \A k \in DOMAIN hits :
                Len(AgesOf(hits', k[1], k[2]))
                   = Len(SelectSeq(hits[k], LAMBDA a : a + 1 < 5))]_vars

C10_Witness ==
    /\ resp.route = "list"
    /\ resp.caller = "carol"
    /\ resp.status = 429
    /\ AgesOf(hits, "carol", "list") = <<4, 3>>
    /\ AgesOf(hits, "carol", "update") # <<>>
    /\ AgesOf(hits, "bob", "list") # <<>>

====
